---- MODULE Spec2Model ----
(***************************************************************************)
(* Model of src/formatting.ts: the Russian numeral-to-words converter      *)
(* (morph, convertThreeDigitNumber, numberToWordsRu) and the supporting    *)
(* formatters (sanitizeNumberInput, formatNumberWithSpaces, formatDateRu), *)
(* and of the form component App that builds the agreement text.           *)
(*                                                                         *)
(* Spec runs the functions of formatting.ts on their inputs; SpecForm runs *)
(* the handlers of the form.                                               *)
(*                                                                         *)
(* Representation.                                                         *)
(*  - A JavaScript string is a sequence of tokens.  For the formatters a   *)
(*    token is one character; for the converter a token is one word or the *)
(*    single space " ".  The empty string is << >>.                        *)
(*  - The parser accepts only ASCII in strings, so the Cyrillic words of   *)
(*    the source are transliterated one for one ("минус" is "minus",       *)
(*    "тенге" is "tenge", "ноль" is "nol", "тысяча" is "tysyacha", ...).   *)
(*  - TLC integers are 32 bits wide while the converter is specified up to *)
(*    10^12, so an integer magnitude is held in two limbs of six decimal   *)
(*    digits: [hi, lo] stands for hi * 10^6 + lo with lo in 0..999999.     *)
(*    A number argument is [nan, neg, hi, lo, frac]: not-a-number flag,    *)
(*    sign bit, the two limbs of the integer part of the absolute value,   *)
(*    and whether the absolute value has a nonzero fractional part.        *)
(***************************************************************************)
EXTENDS Integers, Sequences, FiniteSets, TLC

VARIABLES fn, arg, ret, state, generatedText

vars == <<fn, arg, ret, state, generatedText>>

\* the variables of the form
formVars == <<state, generatedText>>

\* the variables of a call of a function of formatting.ts
callVars == <<fn, arg, ret>>

(* Bounds of the model *)

\* morph is exercised on the counts 0..MaxCount
MaxCount == 240
\* sanitizeNumberInput is exercised on all strings over SanAlphabet up to this length
MaxSanLen == 5
\* formatNumberWithSpaces is exercised on integer parts up to this many digits
MaxIntLen == 7
\* ... and on fractions up to this many digits
MaxFracLen == 4
\* each list of insured persons holds at most this many persons
MaxInsured == 1

(* Generic string helpers (JavaScript String / Array built-ins) *)

Min(a, b) == IF a < b THEN a ELSE b

RECURSIVE Join(_, _)
\* Array.prototype.join: elements separated by sep
Join(parts, sep) ==
  IF Len(parts) = 0 THEN << >>
  ELSE IF Len(parts) = 1 THEN parts[1]
  ELSE parts[1] \o sep \o Join(Tail(parts), sep)

RECURSIVE TrimStart(_)
TrimStart(s) == IF Len(s) > 0 /\ s[1] = " " THEN TrimStart(Tail(s)) ELSE s

RECURSIVE TrimEnd(_)
TrimEnd(s) ==
  IF Len(s) > 0 /\ s[Len(s)] = " " THEN TrimEnd(SubSeq(s, 1, Len(s) - 1)) ELSE s

\* String.prototype.trim
Trim(s) == TrimEnd(TrimStart(s))

\* a table entry as a string: '' is the empty string
Str(w) == IF w = "" THEN << >> ELSE <<w>>

(* Lookup tables, formatting.ts lines 56-59 (index 0 of the source is index 1 here) *)

units == <<"", "odin", "dva", "tri", "chetyre", "pyat", "shest", "sem", "vosem", "devyat">>

teens == <<"desyat", "odinnadtsat", "dvenadtsat", "trinadtsat", "chetyrnadtsat",
           "pyatnadtsat", "shestnadtsat", "semnadtsat", "vosemnadtsat", "devyatnadtsat">>

tens == <<"", "", "dvadtsat", "tridtsat", "sorok", "pyatdesyat", "shestdesyat",
          "semdesyat", "vosemdesyat", "devyanosto">>

hundreds == <<"", "sto", "dvesti", "trista", "chetyresta", "pyatsot", "shestsot",
              "semsot", "vosemsot", "devyatsot">>

\* reading a table past its end gives undefined, which join renders as ''
At(table, i) == IF i + 1 \in 1..Len(table) THEN table[i + 1] ELSE ""

(* morph, formatting.ts lines 61-64 *)

cases == <<2, 0, 1, 1, 1, 2>>

\* morph with the teens test made on the count itself, not on count % 100
morphIndexNoMod(number) ==
  IF number > 4 /\ number < 20 THEN 2 ELSE cases[Min(number % 10, 5) + 1]

morphIndex(number) ==
  IF number % 100 > 4 /\ number % 100 < 20 THEN 2 ELSE cases[Min(number % 10, 5) + 1]

morph(number, titles) == titles[morphIndex(number) + 1]

(* convertThreeDigitNumber, formatting.ts lines 66-85 *)

\* convertThreeDigitNumber with the feminine form given to the unit 1 only
convertThreeDigitNumberOnlyOdna(num, gender) ==
  IF num = 0 THEN << >>
  ELSE
    LET h == num \div 100
        t == (num % 100) \div 10
        u == num % 10
        p1 == IF h > 0 THEN <<Str(At(hundreds, h))>> ELSE << >>
        p2 == IF t = 1 THEN <<Str(At(teens, u))>>
              ELSE (IF t > 1 THEN <<Str(At(tens, t))>> ELSE << >>)
                   \o (IF u > 0
                       THEN <<Str(IF gender = "female" /\ u = 1 THEN "odna" ELSE At(units, u))>>
                       ELSE << >>)
    IN Join(p1 \o p2, <<" ">>)

convertThreeDigitNumber(num, gender) ==
  IF num = 0 THEN << >>
  ELSE
    LET h == num \div 100
        t == (num % 100) \div 10
        u == num % 10
        p1 == IF h > 0 THEN <<Str(At(hundreds, h))>> ELSE << >>
        p2 == IF t = 1 THEN <<Str(At(teens, u))>>
              ELSE (IF t > 1 THEN <<Str(At(tens, t))>> ELSE << >>)
                   \o (IF u > 0
                       THEN <<Str(IF gender = "female" /\ (u = 1 \/ u = 2)
                                  THEN (IF u = 1 THEN "odna" ELSE "dve")
                                  ELSE At(units, u))>>
                       ELSE << >>)
    IN Join(p1 \o p2, <<" ">>)

(* numberToWordsRu, formatting.ts lines 94-127 *)

\* the not-a-number guard left out
isNaNNever(number) == FALSE

\* isNaN(number), line 95
isNaN(number) == number.nan

\* the sign read after Math.abs has been applied
isNegativeAfterAbs(number) == FALSE

\* number < 0, line 96: false for NaN and for both zeros
isNegative(number) ==
  ~number.nan /\ number.neg /\ (number.hi # 0 \/ number.lo # 0 \/ number.frac)

\* Math.floor(Math.abs(number)), line 97: the integer part of the magnitude
floorAbs(number) == [hi |-> number.hi, lo |-> number.lo]

\* num === 0, line 99
isZero(num) == num.hi = 0 /\ num.lo = 0

\* Math.floor(num / 1000000000), line 103:  (hi*10^6 + lo) div 10^9 = hi div 10^3
billionsOf(num) == num.hi \div 1000

\* the millions group taken without the "% 1000000000"
millionsOfNoMod(num) == num.hi

\* Math.floor((num % 1000000000) / 1000000), line 108
millionsOf(num) == num.hi % 1000

\* Math.floor((num % 1000000) / 1000), line 113
thousandsOf(num) == num.lo \div 1000

\* num % 1000, line 118
restOf(num) == num.lo % 1000

billionTitles == <<"milliard", "milliarda", "milliardov">>
millionTitles == <<"million", "milliona", "millionov">>
thousandTitles == <<"tysyacha", "tysyachi", "tysyach">>
currencyTitles == <<"tenge", "tenge", "tenge">>

\* the thousands group converted as masculine
thousandsGenderMale == "male"

\* the gender passed for the thousands group, line 115
thousandsGender == "female"

\* a scaled group pushed without its "> 0" guard
scaledPartUnguarded(value, gender, titles) ==
  <<convertThreeDigitNumber(value, gender) \o <<" ">> \o Str(morph(value, titles))>>

\* one scaled group, lines 104-106, 109-111, 114-116: '' + ' ' + scale name
scaledPart(value, gender, titles) ==
  IF value > 0
  THEN <<convertThreeDigitNumber(value, gender) \o <<" ">> \o Str(morph(value, titles))>>
  ELSE << >>

\* the last group, lines 119-121
restPart(rest) ==
  IF rest > 0 THEN <<convertThreeDigitNumber(rest, "male")>> ELSE << >>

\* parts.filter(p => p.trim()), line 124
filterNonBlank(parts) == SelectSeq(parts, LAMBDA p : Len(Trim(p)) > 0)

\* the currency word appended only inside the rest > 0 branch
withCurrencyIfRest(joined, rest) ==
  IF rest > 0 THEN joined \o <<" ">> \o Str(morph(rest, currencyTitles)) ELSE joined

\* the currency word and its placement, lines 123-124
withCurrency(joined, rest) == joined \o <<" ">> \o Str(morph(rest, currencyTitles))

\* the zero case without its currency word
zeroResultBare == <<"nol">>

\* the zero case, line 99
zeroResult == <<"nol", " ">> \o Str(morph(0, currencyTitles))

\* the sign prefix, line 126
signPrefix(negative) == IF negative THEN <<"minus", " ">> ELSE << >>

numberToWordsRu(number) ==
  IF isNaN(number) THEN << >>
  ELSE
    LET num == floorAbs(number)
    IN IF isZero(num) THEN zeroResult
       ELSE
         LET parts == scaledPart(billionsOf(num), "male", billionTitles)
                      \o scaledPart(millionsOf(num), "male", millionTitles)
                      \o scaledPart(thousandsOf(num), thousandsGender, thousandTitles)
                      \o restPart(restOf(num))
             result == withCurrency(Join(filterNonBlank(parts), <<" ">>), restOf(num))
         IN signPrefix(isNegative(number)) \o Trim(result)

(* Character classes and String built-ins used by the formatters *)

Digits == {"0", "1", "2", "3", "4", "5", "6", "7", "8", "9"}

\* \d
isDigit(c) == c \in Digits

\* \w: the model alphabets hold no letters or underscores besides "x" and "a"
isWord(c) == c \in Digits \/ c \in {"x", "a", "_"}

RECURSIVE Concat(_)
\* Array.prototype.join('')
Concat(parts) == IF Len(parts) = 0 THEN << >> ELSE parts[1] \o Concat(Tail(parts))

RECURSIVE Split(_, _)
\* String.prototype.split(sep) for a one-character separator
Split(s, sep) ==
  IF \A i \in 1..Len(s) : s[i] # sep THEN <<s>>
  ELSE LET i == CHOOSE j \in 1..Len(s) : s[j] = sep /\ \A k \in 1..(j - 1) : s[k] # sep
       IN <<SubSeq(s, 1, i - 1)>> \o Split(SubSeq(s, i + 1, Len(s)), sep)

\* String.prototype.replace(from, to) with a string pattern: the first occurrence only
ReplaceFirst(s, from, to) ==
  IF \A i \in 1..Len(s) : s[i] # from THEN s
  ELSE LET i == CHOOSE j \in 1..Len(s) : s[j] = from /\ \A k \in 1..(j - 1) : s[k] # from
       IN SubSeq(s, 1, i - 1) \o <<to>> \o SubSeq(s, i + 1, Len(s))

(* sanitizeNumberInput, formatting.ts lines 10-17 *)

\* value.replace(/[^0-9.,]/g, ''), line 11
stripNonNumeric(value) == SelectSeq(value, LAMBDA c : isDigit(c) \/ c = "." \/ c = ",")

\* .replace(',', '.'), line 11
commaToDot(s) == ReplaceFirst(s, ",", ".")

sanitizeNumberInput(value) ==
  LET cleaned == commaToDot(stripNonNumeric(value))
      parts == Split(cleaned, ".")
  IN IF Len(parts) > 2
     THEN parts[1] \o <<".">> \o Concat(Tail(parts))
     ELSE cleaned

(* formatNumberWithSpaces, formatting.ts lines 24-29 *)

\* the pattern written without its leading \B
notWordBoundaryIgnored(s, i) == TRUE

\* \B at the position after the first i characters of s
notWordBoundary(s, i) ==
  (i > 0 /\ isWord(s[i])) <=> (i < Len(s) /\ isWord(s[i + 1]))

\* (?=(\d{3})+(?!\d)) at the position after the first i characters of s
groupsOfThreeAhead(s, i) ==
  \E k \in 1..(Len(s) \div 3) :
    /\ i + 3 * k <= Len(s)
    /\ \A j \in (i + 1)..(i + 3 * k) : isDigit(s[j])
    /\ (i + 3 * k = Len(s) \/ ~isDigit(s[i + 3 * k + 1]))

\* the positions where /\B(?=(\d{3})+(?!\d))/g matches (all matches are empty)
matchesSeparator(s, i) == notWordBoundary(s, i) /\ groupsOfThreeAhead(s, i)

RECURSIVE insertSpaces(_, _)
\* integerPart.replace(/\B(?=(\d{3})+(?!\d))/g, ' '), line 27: i is the position reached
insertSpaces(s, i) ==
  IF i > Len(s) THEN << >>
  ELSE (IF matchesSeparator(s, i) THEN <<" ">> ELSE << >>)
       \o (IF i < Len(s) THEN <<s[i + 1]>> ELSE << >>)
       \o insertSpaces(s, i + 1)

formatNumberWithSpaces(numStr) ==
  IF Len(numStr) = 0 THEN << >>
  ELSE
    LET split == Split(numStr, ".")
        integerPart == split[1]
        formattedIntegerPart == insertSpaces(integerPart, 0)
    IN IF Len(split) >= 2
       THEN formattedIntegerPart \o <<".">> \o split[2]
       ELSE formattedIntegerPart

(* formatDateRu, formatting.ts lines 36-54.                                 *)
(* The output string is a token sequence: one token per digit, " " for a    *)
(* space, "<<" and ">>" for the guillemets, "g." for the closing "г.", one  *)
(* token per month name, and "NaN" / "undefined" for those renderings.      *)

\* line 43-47, transliterated
monthNames == <<"yanvarya", "fevralya", "marta", "aprelya", "maya", "iyunya",
                "iyulya", "avgusta", "sentyabrya", "oktyabrya", "noyabrya", "dekabrya">>

\* the time of day appended to the input, "T12:00:00Z", line 40
noonHourUTC == 12

\* a JavaScript number that is an integer or NaN
Num(v) == [nan |-> FALSE, v |-> v]
NaN == [nan |-> TRUE, v |-> 0]

\* the time value of an invalid Date
NaNTime == NaN

isLeap(y) == (y % 4 = 0 /\ y % 100 # 0) \/ y % 400 = 0

daysInMonth(y, m) ==
  IF m = 2 THEN (IF isLeap(y) THEN 29 ELSE 28)
  ELSE IF m \in {4, 6, 9, 11} THEN 30 ELSE 31

\* day number (days since 1970-01-01) of the civil date y-m-d, m in 1..12
daysFromCivil(y, m, d) ==
  LET yy == IF m <= 2 THEN y - 1 ELSE y
      era == yy \div 400
      yoe == yy - era * 400
      mp == IF m > 2 THEN m - 3 ELSE m + 9
      doy == (153 * mp + 2) \div 5 + d - 1
      doe == yoe * 365 + yoe \div 4 - yoe \div 100 + doy
  IN era * 146097 + doe - 719468

\* civil date [y, m, d] of a day number, m in 1..12
civilFromDays(z) ==
  LET zz == z + 719468
      era == zz \div 146097
      doe == zz - era * 146097
      yoe == (doe - doe \div 1460 + doe \div 36524 - doe \div 146096) \div 365
      doy == doe - (365 * yoe + yoe \div 4 - yoe \div 100)
      mp == (5 * doy + 2) \div 153
      d == doy - (153 * mp + 2) \div 5 + 1
      m == IF mp < 10 THEN mp + 3 ELSE mp - 9
  IN [y |-> yoe + era * 400 + (IF m <= 2 THEN 1 ELSE 0), m |-> m, d |-> d]

RECURSIVE toNumber(_)
\* the value of a string of decimal digits
toNumber(s) ==
  IF Len(s) = 0 THEN 0
  ELSE 10 * toNumber(SubSeq(s, 1, Len(s) - 1))
       + (CHOOSE v \in 0..9 : s[Len(s)] = <<"0", "1", "2", "3", "4", "5", "6", "7", "8", "9">>[v + 1])

allDigits(s) == \A i \in 1..Len(s) : isDigit(s[i])

\* The date fields [y, m, d] of dateStr when `${dateStr}T12:00:00Z` is in the
\* ECMAScript date-time string format (YYYY, YYYY-MM or YYYY-MM-DD before the
\* "T"); ok is FALSE otherwise.
isoFields(dateStr) ==
  IF Len(dateStr) = 4 /\ allDigits(dateStr)
  THEN [ok |-> TRUE, y |-> toNumber(dateStr), m |-> 1, d |-> 1]
  ELSE IF Len(dateStr) = 7 /\ dateStr[5] = "-"
          /\ allDigits(SubSeq(dateStr, 1, 4)) /\ allDigits(SubSeq(dateStr, 6, 7))
  THEN [ok |-> TRUE, y |-> toNumber(SubSeq(dateStr, 1, 4)),
        m |-> toNumber(SubSeq(dateStr, 6, 7)), d |-> 1]
  ELSE IF Len(dateStr) = 10 /\ dateStr[5] = "-" /\ dateStr[8] = "-"
          /\ allDigits(SubSeq(dateStr, 1, 4)) /\ allDigits(SubSeq(dateStr, 6, 7))
          /\ allDigits(SubSeq(dateStr, 9, 10))
  THEN [ok |-> TRUE, y |-> toNumber(SubSeq(dateStr, 1, 4)),
        m |-> toNumber(SubSeq(dateStr, 6, 7)), d |-> toNumber(SubSeq(dateStr, 9, 10))]
  ELSE [ok |-> FALSE, y |-> 0, m |-> 0, d |-> 0]

\* hours since the epoch of y-m-d 12:00:00 UTC; a day past the end of the month
\* runs into the next month
timeValue(f) == Num((daysFromCivil(f.y, f.m, 1) + f.d - 1) * 24 + noonHourUTC)

\* new Date(`${dateStr}T12:00:00Z`), line 40: the set of time values an engine
\* can produce.  A string outside the format, or with a month outside 01..12
\* or a day outside 01..31, gives an invalid Date.  A day 29..31 that the month
\* does not have gives an invalid Date in engines that follow the standard
\* and runs into the next month in V8.
newDate(dateStr) ==
  LET f == isoFields(dateStr)
  IN IF ~f.ok THEN {NaNTime}
     ELSE IF f.m \notin 1..12 \/ f.d \notin 1..31 THEN {NaNTime}
     ELSE IF f.d > daysInMonth(f.y, f.m) THEN {NaNTime, timeValue(f)}
     ELSE {timeValue(f)}

\* the month taken as 1-based
getUTCMonthOneBased(date) == IF date.nan THEN NaN ELSE Num(civilFromDays(date.v \div 24).m)

\* Date.prototype.getUTCDate / getUTCFullYear / getUTCMonth (0-based)
getUTCDate(date) == IF date.nan THEN NaN ELSE Num(civilFromDays(date.v \div 24).d)
getUTCFullYear(date) == IF date.nan THEN NaN ELSE Num(civilFromDays(date.v \div 24).y)
getUTCMonth(date) == IF date.nan THEN NaN ELSE Num(civilFromDays(date.v \div 24).m - 1)

RECURSIVE digitsOf(_)
\* the decimal digits of a non-negative integer
digitsOf(n) ==
  IF n < 10 THEN <<<<"0", "1", "2", "3", "4", "5", "6", "7", "8", "9">>[n + 1]>>
  ELSE digitsOf(n \div 10) \o digitsOf(n % 10)

\* Number.prototype.toString and the template-literal rendering of a number
numberToString(n) == IF n.nan THEN <<"NaN">> ELSE digitsOf(n.v)

\* the character length of a rendering
charLen(s) == IF s = <<"NaN">> THEN 3 ELSE Len(s)

\* String.prototype.padStart(2, '0')
padStart2(s) == IF charLen(s) < 2 THEN <<"0">> \o s ELSE s

\* monthNames[i], line 48, rendered in the template literal
monthAt(i) == IF i.nan \/ i.v + 1 \notin 1..Len(monthNames) THEN "undefined" ELSE monthNames[i.v + 1]

\* date is the Date that line 40 constructed, an element of newDate(dateStr).
\* Nothing in the try block throws, so the catch of lines 50-53 is never entered.
formatDateRu(dateStr, date) ==
  IF Len(dateStr) = 0 THEN << >>
  ELSE
    LET day == padStart2(numberToString(getUTCDate(date)))
        year == getUTCFullYear(date)
        month == monthAt(getUTCMonth(date))
    IN <<"<<">> \o day \o <<">>", " ", month, " ">> \o numberToString(year) \o <<" ", "g.">>

(* Inputs of the calls *)

StringsUpTo(alphabet, n) == UNION {[1..k -> alphabet] : k \in 0..n}

\* word-form triples handed to morph: the four of the source and a generic one
TitleSets == {billionTitles, millionTitles, thousandTitles, currencyTitles,
              <<"singular", "plural_few", "plural_many">>}

\* the domain of convertThreeDigitNumber
GroupRange == 0..999

Genders == {"male", "female"}

\* group values the amounts are built from
GroupVals == {0, 1, 2, 5, 11, 21, 100, 999}

\* values of floor(num / 10^9): the groups and two values that only a
\* magnitude of 10^12 or more produces
BillionVals == GroupVals \cup {1000, 1234}

NaNAmount == [nan |-> TRUE, neg |-> FALSE, hi |-> 0, lo |-> 0, frac |-> FALSE]

Amounts ==
  {NaNAmount} \cup
  {[nan |-> FALSE, neg |-> s, hi |-> b * 1000 + m, lo |-> t * 1000 + r, frac |-> f] :
     s \in BOOLEAN, f \in BOOLEAN, b \in BillionVals, m \in GroupVals,
     t \in GroupVals, r \in GroupVals}

\* the magnitude is below 10^12
belowTrillion(number) == number.hi < 1000000

SanAlphabet == {"1", "2", ".", ",", "x"}

SanInputs == StringsUpTo(SanAlphabet, MaxSanLen)

FmtDigits == {"0", "7"}

\* digits, optionally followed by a dot and a fraction
FmtInputs ==
  {i \o f : i \in StringsUpTo(FmtDigits, MaxIntLen),
            f \in {<< >>} \cup {<<".">> \o d : d \in StringsUpTo(FmtDigits, MaxFracLen)}}

Years == {999, 1900, 2000, 2023, 2024}

pad(n, width) ==
  LET ds == digitsOf(n)
  IN [i \in 1..(width - Len(ds)) |-> "0"] \o ds

\* YYYY-MM-DD with every month field 00..13 and day field 00..32, the shorter
\* forms YYYY and YYYY-MM, the empty string, and strings outside the format
DateInputs ==
  {pad(y, 4) \o <<"-">> \o pad(m, 2) \o <<"-">> \o pad(d, 2) :
     y \in Years, m \in 0..13, d \in 0..32}
  \cup {pad(y, 4) : y \in Years}
  \cup {pad(y, 4) \o <<"-">> \o pad(m, 2) : y \in Years, m \in 0..13}
  \cup {<< >>, <<"a", "b", "c">>, <<"2", "0", "2", "4", "-", "0", "1", "-", "x", "5">>,
        <<"0", "5", ".", "0", "1", ".", "2", "0", "2", "4">>}

(* The form component App, lines 48-164 of the component source.            *)
(* state holds the fields of FormState that decide which clauses are        *)
(* emitted.  The fields that only appear inside the wording of a part       *)
(* (contractNumber, contractDate, insuranceType, basisDocumentNumber,       *)
(* basisDocumentDate, sumOperation, currentSum, premiumOperation,           *)
(* currentPremium, and the name and iin of a person) are left out, and the  *)
(* wording of a part is held as a tag.  A person is its id.                 *)

AgreementTypes == {"monetary", "info"}
InfoSubTypes == {"general", "insured"}

\* values typed into a text field and into a date field
TextValues == {<< >>, <<"a">>}
DateValues == {<< >>, <<"2", "0", "2", "4", "-", "0", "1", "-", "0", "5">>}

\* values typed or pasted into a numeric field
NumericTyped == {<< >>, <<"5">>, <<"x">>}

\* ids that crypto.randomUUID can return: as many as persons can be listed
PersonIds == 1..(2 * MaxInsured)

\* useState<FormState>(...), lines 49-70
initialState ==
  [agreementType |-> "monetary",
   basisDocument |-> << >>,
   deltaSum |-> << >>,
   isSumUnchanged |-> FALSE,
   deltaPremium |-> << >>,
   isPremiumUnchanged |-> FALSE,
   paymentDeadline |-> << >>,
   infoSubType |-> "general",
   generalInfoText |-> << >>,
   insuredToAdd |-> << >>,
   insuredToRemove |-> << >>]

\* the keys that handleStateChange is called with directly, and their values
DirectKeys == {"agreementType", "basisDocument", "isSumUnchanged", "isPremiumUnchanged",
               "paymentDeadline", "infoSubType", "generalInfoText"}

ValuesOf(key) ==
  IF key = "agreementType" THEN AgreementTypes
  ELSE IF key = "infoSubType" THEN InfoSubTypes
  ELSE IF key \in {"isSumUnchanged", "isPremiumUnchanged"} THEN BOOLEAN
  ELSE IF key = "paymentDeadline" THEN DateValues
  ELSE TextValues

NumericKeys == {"deltaSum", "deltaPremium"}
ListKeys == {"insuredToAdd", "insuredToRemove"}

\* the element that edits the key is rendered, JSX of lines 175-335
Rendered(s, key) ==
  IF key = "agreementType" THEN TRUE
  ELSE IF key \in {"basisDocument", "isSumUnchanged", "isPremiumUnchanged"}
  THEN s.agreementType = "monetary"
  ELSE IF key = "deltaSum" THEN s.agreementType = "monetary" /\ ~s.isSumUnchanged
  ELSE IF key \in {"deltaPremium", "paymentDeadline"}
  THEN s.agreementType = "monetary" /\ ~s.isPremiumUnchanged
  ELSE IF key = "infoSubType" THEN s.agreementType = "info"
  ELSE IF key = "generalInfoText" THEN s.agreementType = "info" /\ s.infoSubType = "general"
  ELSE s.agreementType = "info" /\ s.infoSubType = "insured"

\* a JavaScript string is truthy when it is not empty
Truthy(str) == Len(str) > 0

\* a part of the text that carries no number
plain(tag) == [kind |-> "plain", number |-> 0, text |-> tag]

\* `\n${itemCounter}. ${text}`, line 121
clause(number, tag) == [kind |-> "clause", number |-> number, text |-> tag]

\* the condition of lines 115 and 119
hasBasis(s) == s.agreementType = "monetary" /\ Truthy(s.basisDocument)

\* the counter started at 1 whatever the basis clause
itemCounterStartAlwaysOne(s) == 1

\* let itemCounter = ..., line 119
itemCounterStart(s) == IF hasBasis(s) THEN 2 ELSE 1

\* the wordings handed to addClause by lines 125-153, in order
bodyClauses(s) ==
  IF s.agreementType = "monetary"
  THEN (IF ~s.isSumUnchanged /\ Truthy(s.deltaSum) THEN <<"sum">> ELSE << >>)
       \o (IF ~s.isPremiumUnchanged /\ Truthy(s.deltaPremium)
           THEN <<"premium">> \o (IF Truthy(s.paymentDeadline) THEN <<"deadline">> ELSE << >>)
           ELSE << >>)
  ELSE IF s.infoSubType = "general" /\ Truthy(s.generalInfoText) THEN <<"general">>
  ELSE IF s.infoSubType = "insured"
  THEN (IF Len(s.insuredToAdd) > 0 THEN <<"include">> ELSE << >>)
       \o (IF Len(s.insuredToRemove) > 0 THEN <<"exclude">> ELSE << >>)
  ELSE << >>

\* the three wordings handed to addClause by lines 155-157
closingClauses == <<"unchanged", "inForce", "copies">>

\* addClause called once for each wording, lines 120-123: the counter is
\* used and then incremented
addClauses(start, texts) == [i \in 1..Len(texts) |-> clause(start + i - 1, texts[i])]

\* the parts pushed by generateAgreementText, lines 109-161; line 163 joins
\* them with '\n' into generatedText
generateParts(s) ==
  <<plain("title"), plain("place"), plain("preamble")>>
  \o (IF hasBasis(s) THEN <<clause(1, "basis")>> ELSE << >>)
  \o addClauses(itemCounterStart(s), bodyClauses(s) \o closingClauses)
  \o <<plain("signaturesTitle"), plain("insurer"), plain("policyholder")>>

\* the ids listed in either list
usedIds(s) == {s.insuredToAdd[i] : i \in 1..Len(s.insuredToAdd)}
              \cup {s.insuredToRemove[i] : i \in 1..Len(s.insuredToRemove)}

(* The calls.  Every function is pure: a call takes its argument from the    *)
(* input sets and leaves its result in ret; Return discards both.            *)

Init ==
  /\ fn = "idle" /\ arg = << >> /\ ret = << >>
  /\ state = initialState
  /\ generatedText = << >>

CallMorph ==
  /\ fn = "idle"
  /\ \E count \in 0..MaxCount, titles \in TitleSets :
       /\ arg' = [number |-> count, titles |-> titles]
       /\ ret' = morph(count, titles)
  /\ fn' = "morph"
  /\ UNCHANGED formVars

CallConvertThreeDigitNumber ==
  /\ fn = "idle"
  /\ \E num \in GroupRange, gender \in Genders :
       /\ arg' = [num |-> num, gender |-> gender]
       /\ ret' = convertThreeDigitNumber(num, gender)
  /\ fn' = "convertThreeDigitNumber"
  /\ UNCHANGED formVars

CallNumberToWordsRu ==
  /\ fn = "idle"
  /\ \E number \in Amounts :
       /\ arg' = number
       /\ ret' = numberToWordsRu(number)
  /\ fn' = "numberToWordsRu"
  /\ UNCHANGED formVars

CallSanitizeNumberInput ==
  /\ fn = "idle"
  /\ \E value \in SanInputs :
       /\ arg' = value
       /\ ret' = sanitizeNumberInput(value)
  /\ fn' = "sanitizeNumberInput"
  /\ UNCHANGED formVars

CallFormatNumberWithSpaces ==
  /\ fn = "idle"
  /\ \E numStr \in FmtInputs :
       /\ arg' = numStr
       /\ ret' = formatNumberWithSpaces(numStr)
  /\ fn' = "formatNumberWithSpaces"
  /\ UNCHANGED formVars

CallFormatDateRu ==
  /\ fn = "idle"
  /\ \E dateStr \in DateInputs :
       \E date \in newDate(dateStr) :
         /\ arg' = [dateStr |-> dateStr, date |-> date]
         /\ ret' = formatDateRu(dateStr, date)
  /\ fn' = "formatDateRu"
  /\ UNCHANGED formVars

Return ==
  /\ fn # "idle"
  /\ fn' = "idle" /\ arg' = << >> /\ ret' = << >>
  /\ UNCHANGED formVars

Next ==
  \/ CallMorph
  \/ CallConvertThreeDigitNumber
  \/ CallNumberToWordsRu
  \/ CallSanitizeNumberInput
  \/ CallFormatNumberWithSpaces
  \/ CallFormatDateRu
  \/ Return

Spec == Init /\ [][Next]_vars

(* The handlers of the form *)

\* handleStateChange, lines 74-76, called by the elements of the form
handleStateChange ==
  /\ \E key \in DirectKeys :
       /\ Rendered(state, key)
       /\ \E value \in ValuesOf(key) : state' = [state EXCEPT ![key] = value]
  /\ UNCHANGED <<generatedText, callVars>>

\* handleNumericChange, lines 78-80
handleNumericChange ==
  /\ \E key \in NumericKeys :
       /\ Rendered(state, key)
       /\ \E value \in NumericTyped :
            state' = [state EXCEPT ![key] = sanitizeNumberInput(value)]
  /\ UNCHANGED <<generatedText, callVars>>

\* addInsuredPerson, lines 82-85: the new person has an id no person has
addInsuredPerson ==
  /\ \E listKey \in ListKeys :
       /\ Rendered(state, listKey)
       /\ Len(state[listKey]) < MaxInsured
       /\ \E id \in PersonIds \ usedIds(state) :
            state' = [state EXCEPT ![listKey] = Append(state[listKey], id)]
  /\ UNCHANGED <<generatedText, callVars>>

\* removeInsuredPerson, lines 87-89
removeInsuredPerson ==
  /\ \E listKey \in ListKeys :
       /\ Rendered(state, listKey)
       /\ \E k \in 1..Len(state[listKey]) :
            state' = [state EXCEPT
                        ![listKey] = SelectSeq(state[listKey],
                                               LAMBDA p : p # state[listKey][k])]
  /\ UNCHANGED <<generatedText, callVars>>

\* generateAgreementText, lines 107-164
generateAgreementText ==
  /\ generatedText' = generateParts(state)
  /\ UNCHANGED <<state, callVars>>

NextForm ==
  \/ handleStateChange
  \/ handleNumericChange
  \/ addInsuredPerson
  \/ removeInsuredPerson
  \/ generateAgreementText

SpecForm == Init /\ [][NextForm]_vars

TypeOK == fn \in {"idle", "morph", "convertThreeDigitNumber", "numberToWordsRu",
                  "sanitizeNumberInput", "formatNumberWithSpaces", "formatDateRu"}

(* ------------------------------ Properties ------------------------------ *)

\* the form Russian agreement asks for, as the specification words it
ExpectedForm(count, titles) ==
  IF count % 100 > 4 /\ count % 100 < 20 THEN titles[3]
  ELSE IF count % 10 = 1 THEN titles[1]
  ELSE IF count % 10 \in {2, 3, 4} THEN titles[2]
  ELSE titles[3]

\* the amount is a number below zero
AmountNegative(number) ==
  ~number.nan /\ number.neg /\ (number.hi # 0 \/ number.lo # 0 \/ number.frac)

StartsWithMinus(s) == Len(s) >= 2 /\ s[1] = "minus" /\ s[2] = " "

\* C1: for every count >= 0 and every triple, morph returns plural_many when
\* 4 < count % 100 < 20, otherwise singular for a last digit 1, plural_few for
\* 2..4 and plural_many for 0 and 5..9.
C1_MorphAgreement ==
  fn = "morph" => ret = ExpectedForm(arg.number, arg.titles)

\* morph(112, ...) is the "many" form although the last digit is 2
C1_Witness ==
  fn = "morph" /\ arg.number = 112 /\ arg.titles[3] = "plural_many" /\ ret = "plural_many"

\* C2: for 1 <= n < 10^12 the result ends in a space and the currency word
\* that agreement picks for n % 1000, whatever the higher groups are; a round
\* multiple of 1000 uses count 0, and numberToWordsRu(1000) is exactly
\* "odna tysyacha tenge".
C2_CurrencyAgreesWithLastGroup ==
  (fn = "numberToWordsRu" /\ ~arg.nan /\ belowTrillion(arg) /\ (arg.hi # 0 \/ arg.lo # 0))
  => /\ Len(ret) >= 3
     /\ ret[Len(ret)] = ExpectedForm(arg.lo % 1000, <<"tenge", "tenge", "tenge">>)
     /\ ret[Len(ret) - 1] = " "
     /\ ret[Len(ret) - 2] # " "
     /\ (arg.hi = 0 /\ arg.lo = 1000 /\ ~arg.neg
         => ret = <<"odna", " ", "tysyacha", " ", "tenge">>)

\* numberToWordsRu(1000): last group zero, currency word still appended
C2_Witness ==
  /\ fn = "numberToWordsRu" /\ ~arg.nan /\ ~arg.neg
  /\ arg.hi = 0 /\ arg.lo = 1000
  /\ ret = <<"odna", " ", "tysyacha", " ", "tenge">>

\* C3 as stated: every amount below zero, those of magnitude below 1
\* included, gives a result that begins with "minus" and a space; no amount
\* >= 0 does.
C3_MinusForEveryNegative ==
  (fn = "numberToWordsRu" /\ ~arg.nan)
  => (AmountNegative(arg) <=> StartsWithMinus(ret))

\* C3 amended: the result begins with "minus" and a space exactly when the
\* amount is below zero and its truncated magnitude is at least 1; a negative
\* amount of magnitude below 1 gives "nol tenge" without the sign word.
C3_MinusForNegativeIntegerPart ==
  (fn = "numberToWordsRu" /\ ~arg.nan)
  => /\ (AmountNegative(arg) /\ (arg.hi # 0 \/ arg.lo # 0)) <=> StartsWithMinus(ret)
     /\ ~StartsWithMinus(ret) => (Len(ret) > 0 /\ ret[1] # "minus")

\* numberToWordsRu(-100)
C3_Witness ==
  /\ fn = "numberToWordsRu" /\ ~arg.nan /\ arg.neg /\ arg.hi = 0 /\ arg.lo = 100
  /\ ret = <<"minus", " ", "sto", " ", "tenge">>

\* C4: not-a-number gives the empty string, and only not-a-number does: every
\* other amount of magnitude below 10^12 gives a non-empty string that ends in
\* the currency word.
C4_EmptyOnlyForNaN ==
  fn = "numberToWordsRu"
  => /\ arg.nan => ret = << >>
     /\ (~arg.nan /\ belowTrillion(arg)) => (Len(ret) > 0 /\ ret[Len(ret)] = "tenge")

\* numberToWordsRu(NaN)
C4_Witness == fn = "numberToWordsRu" /\ arg.nan /\ ret = << >>

\* C5: every amount that is a number and whose truncated magnitude is zero
\* gives exactly "nol tenge".
C5_ZeroIsNolTenge ==
  (fn = "numberToWordsRu" /\ ~arg.nan /\ arg.hi = 0 /\ arg.lo = 0)
  => ret = <<"nol", " ", "tenge">>

\* a nonzero amount of magnitude below 1, such as 0.5
C5_Witness ==
  /\ fn = "numberToWordsRu" /\ ~arg.nan /\ arg.hi = 0 /\ arg.lo = 0 /\ arg.frac
  /\ ret = <<"nol", " ", "tenge">>

CountOf(s, c) == Cardinality({i \in 1..Len(s) : s[i] = c})

DigitsIn(s) == SelectSeq(s, LAMBDA c : c \in Digits)

\* C6: sanitizeNumberInput is idempotent: sanitizing its own result changes
\* nothing, for any input string.
C6_SanitizeIdempotent ==
  fn = "sanitizeNumberInput" => sanitizeNumberInput(ret) = ret

\* C7: the result of sanitizeNumberInput holds only decimal digits and at most
\* one dot and no comma, with the digits of the input in their original order.
C7_SanitizedIsNumeric ==
  fn = "sanitizeNumberInput"
  => /\ \A i \in 1..Len(ret) : ret[i] \in Digits \cup {"."}
     /\ CountOf(ret, ".") <= 1
     /\ CountOf(ret, ",") = 0
     /\ DigitsIn(ret) = DigitsIn(arg)

\* the part of s before its first dot, and the part from the first dot on
IntegerPartOf(s) == Split(s, ".")[1]
FromDotOf(s) == SubSeq(s, Len(IntegerPartOf(s)) + 1, Len(s))

\* the groups are all of three digits, the first of one to three
GroupedByThree(s) ==
  IF Len(s) = 0 THEN TRUE
  ELSE LET g == Split(s, " ")
       IN /\ Len(g[1]) \in 1..3
          /\ \A k \in 2..Len(g) : Len(g[k]) = 3
          /\ \A k \in 1..Len(g) : \A j \in 1..Len(g[k]) : g[k][j] \in Digits

\* C8: for digits with an optional dot and fraction, formatNumberWithSpaces
\* puts one space between the groups of three digits counted from the right
\* of the integer part, none at the start, leaves the part from the dot on
\* unchanged, and the result without its spaces is the input; the empty
\* string gives the empty string.
C8_ThousandsSpaces ==
  fn = "formatNumberWithSpaces"
  => /\ SelectSeq(ret, LAMBDA c : c # " ") = arg
     /\ (Len(arg) = 0 => ret = << >>)
     /\ (Len(ret) > 0 => ret[1] # " ")
     /\ FromDotOf(ret) = FromDotOf(arg)
     /\ GroupedByThree(IntegerPartOf(ret))

\* a seven-digit integer part and a four-digit fraction
C8_Witness ==
  /\ fn = "formatNumberWithSpaces"
  /\ arg = <<"7", "0", "0", "0", "0", "0", "0", ".", "0", "7", "0", "7">>
  /\ ret = <<"7", " ", "0", "0", "0", " ", "0", "0", "0", ".", "0", "7", "0", "7">>

\* C9: a non-empty input whose Date is invalid is returned unchanged, and the
\* empty string gives the empty string.
C9_InvalidDateEchoed ==
  fn = "formatDateRu"
  => /\ (Len(arg.dateStr) = 0 => ret = << >>)
     /\ (Len(arg.dateStr) > 0 /\ arg.date.nan => ret = arg.dateStr)

\* dateStr is YYYY-MM-DD and names a day of the calendar
ValidCalendarDate(dateStr) ==
  /\ Len(dateStr) = 10
  /\ isoFields(dateStr).ok
  /\ isoFields(dateStr).m \in 1..12
  /\ isoFields(dateStr).d \in 1..daysInMonth(isoFields(dateStr).y, isoFields(dateStr).m)

\* C10: a valid calendar date YYYY-MM-DD is rendered as its own two day
\* digits in guillemets, the month name at index MM - 1 of the table, the year
\* (as a number, so without leading zeros) and "g."; the day is never shifted.
C10_ValidDateRendered ==
  (fn = "formatDateRu" /\ ValidCalendarDate(arg.dateStr))
  => ret = <<"<<">> \o SubSeq(arg.dateStr, 9, 10)
           \o <<">>", " ", monthNames[toNumber(SubSeq(arg.dateStr, 6, 7))], " ">>
           \o digitsOf(toNumber(SubSeq(arg.dateStr, 1, 4))) \o <<" ", "g.">>

\* formatDateRu("2024-01-05")
C10_Witness ==
  /\ fn = "formatDateRu"
  /\ arg.dateStr = <<"2", "0", "2", "4", "-", "0", "1", "-", "0", "5">>
  /\ ret = <<"<<", "0", "5", ">>", " ", "yanvarya", " ", "2", "0", "2", "4", " ", "g.">>

\* the words of s up to, and without, the first token that is in stops
RECURSIVE WordsBefore(_, _)
WordsBefore(s, stops) ==
  IF Len(s) = 0 \/ s[1] \in stops THEN << >>
  ELSE <<s[1]>> \o WordsBefore(Tail(s), stops)

\* s without its sign prefix
Unsigned(s) == IF StartsWithMinus(s) THEN SubSeq(s, 3, Len(s)) ELSE s

BillionNames == {"milliard", "milliarda", "milliardov"}

\* the number words in front of the billions scale name are those of the
\* billions value with everything from its hundreds digit up left out
HighPartDropped(number, s) ==
  TrimEnd(WordsBefore(Unsigned(s), BillionNames))
    = convertThreeDigitNumber(billionsOf(floorAbs(number)) % 100, "male")

\* C11: for a truncated magnitude of 10^12 or more numberToWordsRu either
\* rejects the input (returns the empty string) or returns words that account
\* for the whole value; it never returns a string in which the number words of
\* the part above 999 billion are missing.
C11_NoSilentTruncation ==
  (fn = "numberToWordsRu" /\ ~arg.nan /\ ~belowTrillion(arg))
  => (ret = << >> \/ ~HighPartDropped(arg, ret))

\* the word sequence the specification gives for a three-digit group
ExpectedGroupWords(n, gender) ==
  LET h == n \div 100
      t == (n \div 10) % 10
      u == n % 10
      unit == IF gender = "female" /\ u = 1 THEN "odna"
              ELSE IF gender = "female" /\ u = 2 THEN "dve"
              ELSE units[u + 1]
  IN (IF h > 0 THEN <<hundreds[h + 1]>> ELSE << >>)
     \o (IF t = 1 THEN <<teens[u + 1]>>
         ELSE (IF t > 1 THEN <<tens[t + 1]>> ELSE << >>)
              \o (IF u > 0 THEN <<unit>> ELSE << >>))

\* words separated by single spaces
RECURSIVE Spaced(_)
Spaced(words) ==
  IF Len(words) = 0 THEN << >>
  ELSE IF Len(words) = 1 THEN words
  ELSE <<words[1], " ">> \o Spaced(Tail(words))

\* C12: for n in 0..999 and each gender convertThreeDigitNumber returns the
\* hundreds word, then the teens word alone when the tens digit is 1, otherwise
\* the tens word and the units word, joined by spaces; the result is empty
\* exactly for 0, and the feminine result differs from the masculine one
\* exactly when the tens digit is not 1 and the units digit is 1 or 2.
C12_ThreeDigitWords ==
  (fn = "convertThreeDigitNumber" /\ arg.num \in 0..999)
  => /\ ret = Spaced(ExpectedGroupWords(arg.num, arg.gender))
     /\ (ret = << >>) <=> (arg.num = 0)
     /\ (convertThreeDigitNumber(arg.num, "female") # convertThreeDigitNumber(arg.num, "male"))
        <=> ((arg.num \div 10) % 10 # 1 /\ arg.num % 10 \in {1, 2})

\* convertThreeDigitNumber(122, 'female')
C12_Witness ==
  /\ fn = "convertThreeDigitNumber" /\ arg.num = 122 /\ arg.gender = "female"
  /\ ret = <<"sto", " ", "dvadtsat", " ", "dve">>

\* the amount is a number with 1 <= truncated magnitude < 10^12
InWordedRange(number) ==
  ~number.nan /\ belowTrillion(number) /\ (number.hi # 0 \/ number.lo # 0)

\* what a nonzero scaled group is to contribute: its phrase in the given
\* gender, a space, and its scale name in the form agreement picks
ExpectedScaled(value, gender, titles) ==
  IF value = 0 THEN << >>
  ELSE <<Spaced(ExpectedGroupWords(value, gender)) \o <<" ", ExpectedForm(value, titles)>>>>

\* what the last group is to contribute: its masculine phrase, no scale name
ExpectedRest(value) ==
  IF value = 0 THEN << >> ELSE <<Spaced(ExpectedGroupWords(value, "male"))>>

\* C13: for 1 <= n < 10^12 each of the billions, millions and thousands groups
\* contributes words exactly when it is nonzero: its phrase (masculine for
\* billions and millions, feminine for thousands) immediately followed by its
\* own scale name inflected for the group's value; the last group contributes
\* its masculine phrase and no scale name.
C13_GroupsAndScaleNames ==
  (fn = "numberToWordsRu" /\ InWordedRange(arg))
  => Unsigned(ret)
       = Join(ExpectedScaled(arg.hi \div 1000, "male", <<"milliard", "milliarda", "milliardov">>)
              \o ExpectedScaled(arg.hi % 1000, "male", <<"million", "milliona", "millionov">>)
              \o ExpectedScaled(arg.lo \div 1000, "female", <<"tysyacha", "tysyachi", "tysyach">>)
              \o ExpectedRest(arg.lo % 1000),
              <<" ">>)
         \o <<" ", "tenge">>

\* numberToWordsRu(2001002021): every group nonzero, the thousands feminine
C13_Witness ==
  /\ fn = "numberToWordsRu" /\ ~arg.nan /\ ~arg.neg /\ arg.hi = 2001 /\ arg.lo = 2021
  /\ ret = <<"dva", " ", "milliarda", " ", "odin", " ", "million", " ",
             "dve", " ", "tysyachi", " ", "dvadtsat", " ", "odin", " ", "tenge">>

\* the first position of a token of the set in s, 0 when there is none
PosOf(s, set) ==
  IF \E i \in 1..Len(s) : s[i] \in set
  THEN CHOOSE i \in 1..Len(s) : s[i] \in set /\ \A j \in 1..(i - 1) : s[j] \notin set
  ELSE 0

MillionNames == {"million", "milliona", "millionov"}
ThousandNames == {"tysyacha", "tysyachi", "tysyach"}

\* words and single spaces alternate, a word first and a word last
SingleSpaced(s) ==
  /\ Len(s) % 2 = 1
  /\ \A i \in 1..Len(s) : (s[i] = " ") <=> (i % 2 = 0)

\* a and b are positions of scale names: when both are there a comes first
InOrder(a, b) == (a # 0 /\ b # 0) => a < b

\* C14: for every amount that is a number of magnitude below 10^12 the result
\* lists billions, millions, thousands and the last group in that order and
\* then the currency word, its words separated by exactly one space: no
\* leading space, no trailing space, no two spaces in a row.
C14_OrderAndSingleSpaces ==
  (fn = "numberToWordsRu" /\ ~arg.nan /\ belowTrillion(arg))
  => /\ SingleSpaced(ret)
     /\ ret[Len(ret)] = "tenge"
     /\ PosOf(ret, BillionNames) # 0 <=> arg.hi \div 1000 # 0
     /\ PosOf(ret, MillionNames) # 0 <=> arg.hi % 1000 # 0
     /\ PosOf(ret, ThousandNames) # 0 <=> arg.lo \div 1000 # 0
     /\ InOrder(PosOf(ret, BillionNames), PosOf(ret, MillionNames))
     /\ InOrder(PosOf(ret, BillionNames), PosOf(ret, ThousandNames))
     /\ InOrder(PosOf(ret, MillionNames), PosOf(ret, ThousandNames))
     /\ \A i \in 1..Len(ret) :
          (ret[i] \in BillionNames \cup MillionNames \cup ThousandNames /\ arg.lo % 1000 # 0)
          => i < Len(ret) - 2
     /\ (arg.lo % 1000 # 0)
        => LET phrase == Spaced(ExpectedGroupWords(arg.lo % 1000, "male"))
           IN /\ Len(ret) >= Len(phrase) + 2
              /\ SubSeq(ret, Len(ret) - 1 - Len(phrase), Len(ret) - 2) = phrase

\* numberToWordsRu(-1000000005): the millions and thousands groups are zero
C14_Witness ==
  /\ fn = "numberToWordsRu" /\ ~arg.nan /\ arg.neg /\ arg.hi = 1000 /\ arg.lo = 5
  /\ ret = <<"minus", " ", "odin", " ", "milliard", " ", "pyat", " ", "tenge">>

\* C15: for a magnitude below 10^12 the four groups lie in 0..999 and
\* billions * 10^9 + millions * 10^6 + thousands * 10^3 + rest is the magnitude
\* (stated per limb: billions * 10^3 + millions = hi, thousands * 10^3 + rest =
\* lo), so convertThreeDigitNumber gets arguments in 0..999 only; from 10^12
\* on the billions group exceeds 999.  Where hi * 10^6 + lo fits a 32-bit
\* integer (hi <= 2146) the groups are those of the source's own expressions.
C15_GroupDecomposition ==
  (fn = "numberToWordsRu" /\ ~arg.nan)
  => LET num == floorAbs(arg)
         b == billionsOf(num)
         m == millionsOf(num)
         t == thousandsOf(num)
         r == restOf(num)
     IN /\ belowTrillion(arg)
           => /\ {b, m, t, r} \subseteq 0..999
              /\ b * 1000 + m = arg.hi
              /\ t * 1000 + r = arg.lo
        /\ ~belowTrillion(arg) => b > 999
        /\ arg.hi <= 2146
           => LET n == arg.hi * 1000000 + arg.lo
              IN /\ b = n \div 1000000000
                 /\ m = (n % 1000000000) \div 1000000
                 /\ t = (n % 1000000) \div 1000
                 /\ r = n % 1000

\* numberToWordsRu(2100999999): billions and millions both nonzero
C15_Witness ==
  /\ fn = "numberToWordsRu" /\ ~arg.nan /\ arg.hi = 2100 /\ arg.lo = 999999
  /\ billionsOf(floorAbs(arg)) = 2 /\ millionsOf(floorAbs(arg)) = 100
  /\ Len(ret) > 0

\* the numbered parts of a text, in order
ClausesOf(text) == SelectSeq(text, LAMBDA p : p.kind = "clause")

\* the clauses carry 1, 2, 3, ... in order, the basis clause can only be the
\* first, and the three closing clauses come last in their fixed order
NumberedWell(text) ==
  LET cs == ClausesOf(text)
      n == Len(cs)
  IN /\ \A i \in 1..n : cs[i].number = i
     /\ \A i \in 1..n : cs[i].text = "basis" => i = 1
     /\ n >= 3
     /\ cs[n - 2].text = "unchanged" /\ cs[n - 1].text = "inForce" /\ cs[n].text = "copies"

\* C16: whatever the form state, the numbered clauses that
\* generateAgreementText produces carry 1, 2, 3, ... in their order with no gap
\* and no repeat; the basis clause is emitted exactly for a monetary agreement
\* with a non-empty basis document and is then number 1; the three closing
\* clauses are always the last, in the same order.
C16_ClausesNumberedConsecutively ==
  [][generatedText' # generatedText
     => /\ NumberedWell(generatedText')
        /\ (\E i \in 1..Len(generatedText') : generatedText'[i].text = "basis")
           <=> (state.agreementType = "monetary" /\ Len(state.basisDocument) > 0)]_vars

\* a text with the basis clause and all three monetary clauses: 1 to 7
C16_Witness ==
  /\ Len(ClausesOf(generatedText)) = 7
  /\ ClausesOf(generatedText)[1] = [kind |-> "clause", number |-> 1, text |-> "basis"]
  /\ ClausesOf(generatedText)[2] = [kind |-> "clause", number |-> 2, text |-> "sum"]
  /\ ClausesOf(generatedText)[4] = [kind |-> "clause", number |-> 4, text |-> "deadline"]
  /\ ClausesOf(generatedText)[7] = [kind |-> "clause", number |-> 7, text |-> "copies"]

====
